---- MODULE Spec2Model ----
(***************************************************************************)
(* A model of qotd (src/src/qotd.c): a Discord bot that lets one user set  *)
(* the "question of the day" with the /setqotd command and posts it once a *)
(* day at 20:00:10 UTC.                                                    *)
(*                                                                         *)
(* C strings are sequences of one-character strings, 64-bit snowflake ids  *)
(* are sequences of decimal digits (they exceed TLC's 32-bit integers),    *)
(* time_t values are seconds since the epoch and timer values are          *)
(* milliseconds, as in the library calls of the source.                    *)
(***************************************************************************)
EXTENDS Integers, Sequences, FiniteSets, TLC

\* ------------------------------------------------------------------ bounds

\* Longest short message text a submission carries (besides the long ones).
MaxShortLen == 2
\* How far past a buffer's capacity the long message texts reach.
MaxOver == 1
\* Accepted submissions per run.
MaxSubmissions == 2
\* Timer callbacks per run.
MaxFires == 3
\* Last UTC day (since the epoch) on which the bot may become ready.
MaxReadyDay == 1

\* --------------------------------------------------------- program constants

\* #define LUMI_USER_ID 905564480082153543ULL
LUMI_USER_ID == <<9, 0, 5, 5, 6, 4, 4, 8, 0, 0, 8, 2, 1, 5, 3, 5, 4, 3>>
\* #define QOTD_ROLE_ID 1215105959815553096ULL
QOTD_ROLE_ID == <<1, 2, 1, 5, 1, 0, 5, 9, 5, 9, 8, 1, 5, 5, 5, 3, 0, 9, 6>>
\* #define QOTD_CHANNEL_ID 1198507295538151434ULL
QOTD_CHANNEL_ID == <<1, 1, 9, 8, 5, 0, 7, 2, 9, 5, 5, 3, 8, 1, 5, 1, 4, 3, 4>>

\* char response[4001];
SizeofResponse == 4001
\* The message buffer one byte short: char message[4000].
SizeofMessage_NoTerminator == 4001 - 1
\* char message[4001];
SizeofMessage == 4001

\* timeinfo_qotd->tm_hour = 20; tm_min = 0; tm_sec = 10;
QotdHour == 20
QotdMin == 0
QotdSec == 10
\* the margin of (time_qotd-15) < time_now
QotdMargin == 15
\* 24 * 60 * 60, the seconds added to time_qotd
DaySeconds == 24 * 60 * 60
\* TimerInterval left in seconds.
TimerInterval_Seconds == 24 * 60 * 60
\* 24 * 60 * 60 * 1000, the timer's interval in milliseconds
TimerInterval == 24 * 60 * 60 * 1000
\* the repeat count handed to discord_timer_interval: -1, unlimited
TimerRepeat == -1

\* DISCORD_APPLICATION_OPTION_STRING
DISCORD_APPLICATION_OPTION_STRING == 3
\* DISCORD_INTERACTION_CHANNEL_MESSAGE_WITH_SOURCE
DISCORD_INTERACTION_CHANNEL_MESSAGE_WITH_SOURCE == 4
\* DISCORD_MESSAGE_EPHEMERAL, 1 << 6
DISCORD_MESSAGE_EPHEMERAL == 64

EXIT_SUCCESS == 0
EXIT_FAILURE == 1

\* The null char pointer: no C string equals it (a C string's elements are
\* single characters).
NULL == <<"NULL">>
\* The null pointer to an option list.
NULL_OPTIONS == [null |-> TRUE]

\* ------------------------------------------------------------ string literals

\* "Hold up! Only Lumi can update the question of the day..."
RejectionText ==
    <<"H", "o", "l", "d", " ", "u", "p", "!", " ", "O", "n", "l", "y", " ",
      "L", "u", "m", "i", " ", "c", "a", "n", " ", "u", "p", "d", "a", "t",
      "e", " ", "t", "h", "e", " ", "q", "u", "e", "s", "t", "i", "o", "n",
      " ", "o", "f", " ", "t", "h", "e", " ", "d", "a", "y", ".", ".", ".">>

\* "Invalid command usage, please provide a message!"
UsageText ==
    <<"I", "n", "v", "a", "l", "i", "d", " ", "c", "o", "m", "m", "a", "n",
      "d", " ", "u", "s", "a", "g", "e", ",", " ", "p", "l", "e", "a", "s",
      "e", " ", "p", "r", "o", "v", "i", "d", "e", " ", "a", " ", "m", "e",
      "s", "s", "a", "g", "e", "!">>

\* "Question of the day has been updated to:\n> \"%s\""
ResponseFormat ==
    <<"Q", "u", "e", "s", "t", "i", "o", "n", " ", "o", "f", " ", "t", "h",
      "e", " ", "d", "a", "y", " ", "h", "a", "s", " ", "b", "e", "e", "n",
      " ", "u", "p", "d", "a", "t", "e", "d", " ", "t", "o", ":", "\n", ">",
      " ", "\"", "%", "s", "\"">>

\* MessageFormat without the space after the role mention.
MessageFormat_NoSpace ==
    <<"<", "@", "&", "%", "l", "l", "u", ">", "%", "s">>

\* "<@&%llu> %s"
MessageFormat ==
    <<"<", "@", "&", "%", "l", "l", "u", ">", " ", "%", "s">>

\* ------------------------------------------------------------- pure functions

Min(a, b) == IF a <= b THEN a ELSE b

DigitChar(d) == <<"0", "1", "2", "3", "4", "5", "6", "7", "8", "9">>[d + 1]

\* The text printf's %llu writes for an unsigned 64-bit value, given by its
\* decimal digits.
FormatLLU(id) == [i \in 1..Len(id) |-> DigitChar(id[i])]

\* The place of the first % of fmt, Len(fmt) + 1 when it has none.
FirstDirective(fmt) ==
    IF \E i \in 1..Len(fmt) : fmt[i] = "%"
    THEN CHOOSE i \in 1..Len(fmt) :
            fmt[i] = "%" /\ \A j \in 1..(i - 1) : fmt[j] # "%"
    ELSE Len(fmt) + 1

\* The text a printf format expands to: each %s and %llu directive is replaced
\* by the next argument, every other character is copied.
RECURSIVE Expand(_, _)
Expand(fmt, args) ==
    LET k == FirstDirective(fmt)
    IN  IF k > Len(fmt) THEN fmt
        ELSE IF SubSeq(fmt, k, k + 1) = <<"%", "s">>
        THEN SubSeq(fmt, 1, k - 1) \o Head(args)
                \o Expand(SubSeq(fmt, k + 2, Len(fmt)), Tail(args))
        ELSE IF SubSeq(fmt, k, k + 3) = <<"%", "l", "l", "u">>
        THEN SubSeq(fmt, 1, k - 1) \o FormatLLU(Head(args))
                \o Expand(SubSeq(fmt, k + 4, Len(fmt)), Tail(args))
        ELSE SubSeq(fmt, 1, k) \o Expand(SubSeq(fmt, k + 1, Len(fmt)), args)

\* TruncatedCopy without the byte kept for the terminator.
TruncatedCopy_NoTerminator(size, text) == SubSeq(text, 1, Min(Len(text), size))

\* What snprintf leaves in a buffer of size bytes: the expanded text cut to
\* size - 1 characters (the last byte holds the terminator).
TruncatedCopy(size, text) == SubSeq(text, 1, Min(Len(text), size - 1))

Snprintf(size, fmt, args) == TruncatedCopy(size, Expand(fmt, args))

\* strdup: a fresh copy of the characters of s, from the first to the last
\* before the terminator.
Strdup(s) == SubSeq(s, 1, Len(s))

\* gmtime: the broken-down UTC time of t; tm_days stands for the calendar date
\* (tm_year, tm_mon, tm_mday), which the code leaves as read.
Gmtime(t) ==
    [tm_days |-> t \div 86400,
     tm_hour |-> (t % 86400) \div 3600,
     tm_min  |-> (t % 3600) \div 60,
     tm_sec  |-> t % 60]

\* timegm: seconds since the epoch of a broken-down UTC time.
Timegm(tm) == ((tm.tm_days * 24 + tm.tm_hour) * 60 + tm.tm_min) * 60 + tm.tm_sec

\* timeinfo_qotd with the hour, minute and second fields overwritten.
QotdTimeinfo(time_now) ==
    [Gmtime(time_now) EXCEPT !.tm_hour = QotdHour, !.tm_min = QotdMin,
                             !.tm_sec = QotdSec]

\* SlotMissed without the margin.
SlotMissed_NoMargin(time_qotd, time_now) == time_qotd < time_now

\* SlotMissed with the margin on the other side: (time_qotd+15) < time_now.
SlotMissed_Late(time_qotd, time_now) == (time_qotd + QotdMargin) < time_now

\* (time_qotd-15) < time_now
SlotMissed(time_qotd, time_now) == (time_qotd - QotdMargin) < time_now

\* time_qotd after the if statement.
TimeQotd(time_now) ==
    LET time_qotd == Timegm(QotdTimeinfo(time_now))
    IN  IF SlotMissed(time_qotd, time_now) THEN time_qotd + DaySeconds
        ELSE time_qotd

\* (uint64_t) difftime(time_qotd, time_now), stored in an int64_t: the
\* difference in whole seconds, which the conversions keep while it is not
\* negative.
SecondsUntilQotd(time_now) == TimeQotd(time_now) - time_now

\* TimerDelay left in seconds.
TimerDelay_Seconds(time_now) == SecondsUntilQotd(time_now)

\* The delay argument of discord_timer_interval.
TimerDelay(time_now) == SecondsUntilQotd(time_now) * 1000

\* --------------------------------------------------------------------- inputs

\* The short message texts: q, qq, ... and the empty text.
ShortTexts == {[i \in 1..n |-> "q"] : n \in 0..MaxShortLen}

\* A long message text of n characters, its last one marked.
LongText(n) == [i \in 1..n |-> IF i = n THEN "z" ELSE "x"]

\* The longest message text each buffer holds in full.
ResponseRoom == SizeofResponse - 1 - Len(Expand(ResponseFormat, << <<>> >>))
MessageRoom == SizeofMessage - 1 - Len(Expand(MessageFormat, <<QOTD_ROLE_ID, <<>> >>))

\* Message texts at and just past the capacity of each buffer.
LongTexts ==
    {LongText(ResponseRoom + k) : k \in 0..MaxOver}
        \cup {LongText(MessageRoom + k) : k \in 0..MaxOver}

Texts == ShortTexts \cup LongTexts

\* A user who is not Lumi: the id differs in its last digit only.
OTHER_USER_ID == <<9, 0, 5, 5, 6, 4, 4, 8, 0, 0, 8, 2, 1, 5, 3, 5, 4, 4>>
UserIds == {LUMI_USER_ID, OTHER_USER_ID}

\* The id and token of the interactions the platform delivers.
InteractionA == [id |-> <<7, 1>>, token |-> "tokenA"]
InteractionB == [id |-> <<7, 2>>, token |-> "tokenB"]
Interactions == {InteractionA, InteractionB}

StringOption(text) == [type |-> DISCORD_APPLICATION_OPTION_STRING, value |-> text]
\* An option of another type (an integer option, type 4).
IntegerOption == [type |-> 4, value |-> <<"7">>]
OptionList(array) == [size |-> Len(array), array |-> array]

\* event->data->options with one string option.
OneString(text) == OptionList(<<StringOption(text)>>)

\* event->data->options of another shape: absent (a null pointer), empty, one
\* option of another type, or two options.
OtherOptionLists ==
    {NULL_OPTIONS, OptionList(<<>>), OptionList(<<IntegerOption>>),
     OptionList(<<StringOption(<<"q">>), StringOption(<<"q">>)>>),
     OptionList(<<IntegerOption, StringOption(<<"q">>)>>)}

\* An interaction event: event->id, event->token, event->member->user->id
\* (the command is invoked in a guild, so member is set) and
\* event->data->options.
Event(i, u, o) == [id |-> i.id, token |-> i.token, user_id |-> u, options |-> o]

\* The interaction events of the main specification: each interaction, from
\* each user, with each option list over the short texts.
Events ==
    {Event(i, u, o) : i \in Interactions, u \in UserIds,
        o \in OtherOptionLists \cup {OneString(x) : x \in ShortTexts}}

\* The interaction events of the text specification: Lumi submits any text,
\* or no option; another user submits a text.
TextEvents ==
    {Event(InteractionA, LUMI_USER_ID, OneString(x)) : x \in Texts}
        \cup {Event(InteractionA, LUMI_USER_ID, OptionList(<<>>)),
              Event(InteractionA, OTHER_USER_ID, OneString(<<"q">>))}

\* The interaction events of the schedule specification.
ScheduleEvents ==
    {Event(InteractionA, u, OneString(<<"q">>)) : u \in UserIds}

\* Seconds into the UTC day of the daily slot, 20:00:10.
SlotOffset == (QotdHour * 60 + QotdMin) * 60 + QotdSec

\* Ready times of the main specification: 19:00:00 and 20:00:00 UTC of day 0.
ReadyTimes == {19 * 3600, 20 * 3600}

\* Ready times of the schedule specification: midnight, 19:00:00, the last
\* second of the day and every second around the slot, on each ready day.
ReadyOffsets ==
    {0, 19 * 3600, DaySeconds - 1} \cup ((SlotOffset - 20)..(SlotOffset + 5))
ScheduleReadyTimes ==
    {d * DaySeconds + o : d \in 0..MaxReadyDay, o \in ReadyOffsets}

\* Result codes of ccord_global_init and discord_run (CCORD_OK is 0).
CCORDcodes == {0, -1}

\* ---------------------------------------------------------------------- state

VARIABLES
    pc,             \* main: "start", "running", "stopping", "exited", "crashed"
    exit_code,      \* <<>> while the process lives, <<status>> once it exited
    callbacks,      \* what main registered: signal and client callbacks
    qotd_message,   \* char* qotd_message
    is_initialized, \* bool is_initialized
    heap,           \* strdup's blocks not freed yet
    commands,       \* command lists handed to discord_bulk_overwrite_...
    timers,         \* timers created with discord_timer_interval
    clock,          \* the wall clock, seconds since the epoch
    time_now,       \* bot_main's time_now
    event,          \* the event the last callback handled
    replies,        \* interaction responses the last callback created
    sent,           \* channel messages the last callback created
    fires,          \* the clock at each call of on_qotd_timer
    accepted,       \* submissions stored so far
    attempts,       \* channel messages created so far
    timer_frame,    \* on_qotd_timer's frame while it runs: <<>> or its locals
    twin_message,   \* qotd_message of the twin run (see below)
    twin_sent       \* channel messages the twin run created at the last step

\* The twin run is a second run of the program that is handed the same timer
\* fires and the same invocations by Lumi, and none of the invocations by
\* other callers. Two runs that differ only in the invocations by other
\* callers both agree with it when each of them does.

vars ==
    <<pc, exit_code, callbacks, qotd_message, is_initialized, heap, commands,
      timers, clock, time_now, event, replies, sent, fires, accepted,
      attempts, timer_frame, twin_message, twin_sent>>

\* The state at the start of main, with the globals as initialized.
Init ==
    /\ pc = "start"
    /\ exit_code = <<>>
    /\ callbacks = {}
    /\ qotd_message = NULL
    /\ is_initialized = FALSE
    /\ heap = 0
    /\ commands = <<>>
    /\ timers = <<>>
    /\ clock = 0
    /\ time_now = 0
    /\ event = [kind |-> "none"]
    /\ replies = <<>>
    /\ sent = <<>>
    /\ fires = <<>>
    /\ accepted = 0
    /\ attempts = 0
    /\ timer_frame = <<>>
    /\ twin_message = NULL
    /\ twin_sent = <<>>

\* ----------------------------------------------------------------------- main

\* initialize_discord without the check of ccord_global_init's result.
initialize_discord_IgnoresGlobalInit(code, client) == client

\* initialize_discord: the client, or NULL when ccord_global_init fails or
\* discord_config_init returns NULL.
initialize_discord(code, client) ==
    IF code # 0 THEN NULL
    ELSE IF client = NULL THEN NULL
    ELSE client

\* main up to discord_run: code is ccord_global_init's result and client what
\* discord_config_init returns.
main_start(code, client) ==
    /\ pc = "start"
    /\ IF initialize_discord(code, client) = NULL
       THEN /\ pc' = "exited"
            /\ exit_code' = <<EXIT_FAILURE>>
            /\ callbacks' = callbacks
       ELSE /\ pc' = "running"
            /\ exit_code' = exit_code
            /\ callbacks' = {"handle_sigint", "bot_main", "on_setqotd"}
    /\ event' = [kind |-> "start", code |-> code, client |-> client]
    /\ UNCHANGED <<qotd_message, is_initialized, heap, commands, timers,
                   clock, time_now, replies, sent, fires, accepted,
                   attempts, timer_frame, twin_message, twin_sent>>

\* handle_sigint: ccord_shutdown_async asks the client to shut down, after
\* which its loop dispatches no further callback and discord_run returns.
handle_sigint ==
    /\ pc = "running"
    /\ "handle_sigint" \in callbacks
    /\ pc' = "stopping"
    /\ event' = [kind |-> "sigint"]
    /\ UNCHANGED <<exit_code, callbacks, qotd_message, is_initialized, heap,
                   commands, timers, clock, time_now, replies, sent, fires,
                   accepted, attempts, timer_frame, twin_message, twin_sent>>

\* main from the return of discord_run, with result code, to its return.
main_exit(code) ==
    /\ pc \in {"running", "stopping"}
    /\ pc' = "exited"
    /\ exit_code' = <<EXIT_SUCCESS>>
    /\ event' = [kind |-> "exit", code |-> code]
    /\ UNCHANGED <<callbacks, qotd_message, is_initialized, heap,
                   commands, timers, clock, time_now, replies, sent, fires,
                   accepted, attempts, timer_frame, twin_message, twin_sent>>

\* ------------------------------------------------------------------ callbacks

\* The interaction response created for ev: a reply to its id and token, of
\* type channel message, flagged ephemeral, with the given content.
InteractionResponse(ev, content) ==
    [id |-> ev.id, token |-> ev.token,
     type |-> DISCORD_INTERACTION_CHANNEL_MESSAGE_WITH_SOURCE,
     flags |-> DISCORD_MESSAGE_EPHEMERAL, content |-> content]

\* CallerIsNotLumi with the check lost.
CallerIsNotLumi_Never(ev) == FALSE

\* The identity check with its comparison turned round.
CallerIsNotLumi_Inverted(ev) == ev.user_id = LUMI_USER_ID

\* event->member->user->id != LUMI_USER_ID
CallerIsNotLumi(ev) == ev.user_id # LUMI_USER_ID

\* event->data->options->size != 1
\*   || event->data->options->array[0].type != DISCORD_APPLICATION_OPTION_STRING
BadOptions(options) ==
    \/ options.size # 1
    \/ options.array[1].type # DISCORD_APPLICATION_OPTION_STRING

\* What reading event->data->options->size through a null pointer can do:
\* the process is killed by the fault, or the read yields some size other
\* than 1 and the handler goes on into the usage-error branch.
NullOptionsOutcomes == {"fault", "usage"}

\* The response text of a stored message.
ResponseText(message) == Snprintf(SizeofResponse, ResponseFormat, <<message>>)

\* The channel message text of a stored message.
MessageText(message) ==
    Snprintf(SizeofMessage, MessageFormat, <<QOTD_ROLE_ID, message>>)

\* The path of on_setqotd on ev reaches the strdup of line 111.
SetqotdStores(ev) ==
    /\ ~CallerIsNotLumi(ev)
    /\ ev.options # NULL_OPTIONS
    /\ ~BadOptions(ev.options)

\* on_setqotd, the interaction callback, run to its end on event ev. The
\* twin run takes the same step when the caller is Lumi and none otherwise.
on_setqotd(ev) ==
    /\ pc = "running"
    /\ "on_setqotd" \in callbacks
    /\ event' = [kind |-> "interaction", ev |-> ev]
    /\ sent' = <<>>
    /\ UNCHANGED <<exit_code, callbacks, is_initialized, commands,
                   timers, clock, time_now, fires, attempts, timer_frame>>
    /\ twin_sent' = <<>>
    /\ twin_message' =
            IF ev.user_id = LUMI_USER_ID /\ SetqotdStores(ev)
            THEN Strdup(ev.options.array[1].value)
            ELSE twin_message
    /\ IF CallerIsNotLumi(ev)
       THEN /\ replies' = <<InteractionResponse(ev, RejectionText)>>
            /\ UNCHANGED <<pc, qotd_message, heap, accepted>>
       ELSE IF ev.options = NULL_OPTIONS
       THEN \E outcome \in NullOptionsOutcomes :
            /\ pc' = IF outcome = "fault" THEN "crashed" ELSE pc
            /\ replies' = IF outcome = "fault" THEN <<>>
                          ELSE <<InteractionResponse(ev, UsageText)>>
            /\ UNCHANGED <<qotd_message, heap, accepted>>
       ELSE IF BadOptions(ev.options)
       THEN /\ replies' = <<InteractionResponse(ev, UsageText)>>
            /\ UNCHANGED <<pc, qotd_message, heap, accepted>>
       ELSE /\ accepted < MaxSubmissions
            /\ qotd_message' = Strdup(ev.options.array[1].value)
            /\ heap' = heap + 1
            /\ accepted' = accepted + 1
            /\ replies' = <<InteractionResponse(ev, ResponseText(qotd_message'))>>
            /\ pc' = pc

\* QotdUnset with the check lost.
QotdUnset_Never == FALSE

\* on_qotd_timer without the assignment of line 149.
ClearedMessage_Kept(delivered) == qotd_message

\* The timer callback's null check taken on every fire.
QotdUnset_Always == TRUE

\* !qotd_message
QotdUnset == qotd_message = NULL

\* ClearedMessage that keeps the message for a retry when it was not delivered.
ClearedMessage_KeepUndelivered(delivered) ==
    IF delivered THEN NULL ELSE qotd_message

\* qotd_message after the timer callback created the channel message, whose
\* delivery the callback does not look at.
ClearedMessage(delivered) == NULL

\* The channel message created for a stored message.
ChannelMessage(message, delivered) ==
    [channel_id |-> QOTD_CHANNEL_ID, content |-> MessageText(message),
     delivered |-> delivered]

\* What the twin run's timer callback sends.
TwinPublish(delivered) ==
    IF twin_message = NULL THEN <<>>
    ELSE <<ChannelMessage(twin_message, delivered)>>

\* on_qotd_timer, run to its end when timer i is the next one due; delivered
\* tells whether the channel message it creates reaches the channel.
on_qotd_timer(i, delivered) ==
    /\ pc = "running"
    /\ i \in DOMAIN timers
    /\ \A j \in DOMAIN timers : timers[i].due <= timers[j].due
    /\ Len(fires) < MaxFires
    /\ timer_frame = <<>>
    /\ clock' = timers[i].due \div 1000
    /\ timers' = [timers EXCEPT ![i].due = @ + timers[i].interval]
    /\ fires' = Append(fires, clock')
    /\ event' = [kind |-> "timer"]
    /\ replies' = <<>>
    /\ UNCHANGED <<pc, exit_code, callbacks, is_initialized,
                   commands, time_now, accepted, timer_frame>>
    /\ twin_sent' = TwinPublish(delivered)
    /\ twin_message' = IF twin_message = NULL THEN NULL
                       ELSE ClearedMessage(delivered)
    /\ IF QotdUnset
       THEN /\ sent' = <<>>
            /\ UNCHANGED <<qotd_message, heap, attempts>>
       ELSE /\ sent' = <<ChannelMessage(qotd_message, delivered)>>
            /\ attempts' = attempts + 1
            /\ heap' = heap - 1
            /\ qotd_message' = ClearedMessage(delivered)

\* The first part of on_qotd_timer alone, from its null check to the return
\* of discord_create_message: the callback has read qotd_message into its
\* local buffer and sent it, and has not yet freed and cleared it.
on_qotd_timer_send(i, delivered) ==
    /\ pc = "running"
    /\ i \in DOMAIN timers
    /\ \A j \in DOMAIN timers : timers[i].due <= timers[j].due
    /\ Len(fires) < MaxFires
    /\ timer_frame = <<>>
    /\ clock' = timers[i].due \div 1000
    /\ timers' = [timers EXCEPT ![i].due = @ + timers[i].interval]
    /\ fires' = Append(fires, clock')
    /\ event' = [kind |-> "timer"]
    /\ replies' = <<>>
    /\ UNCHANGED <<pc, exit_code, callbacks, is_initialized, commands,
                   time_now, accepted, qotd_message, heap, twin_message>>
    /\ twin_sent' = TwinPublish(delivered)
    /\ IF QotdUnset
       THEN /\ sent' = <<>>
            /\ UNCHANGED <<attempts, timer_frame>>
       ELSE /\ sent' = <<ChannelMessage(qotd_message, delivered)>>
            /\ attempts' = attempts + 1
            /\ timer_frame' = <<[message |-> MessageText(qotd_message),
                                 delivered |-> delivered]>>

\* The rest of on_qotd_timer: free(qotd_message); qotd_message = NULL, on
\* whatever qotd_message points to by now. The event records the buffer the
\* callback sent and the string it freed.
on_qotd_timer_clear ==
    /\ pc = "running"
    /\ timer_frame # <<>>
    /\ heap' = heap - 1
    /\ qotd_message' = ClearedMessage(timer_frame[1].delivered)
    /\ twin_message' = IF twin_message = NULL THEN NULL
                       ELSE ClearedMessage(timer_frame[1].delivered)
    /\ timer_frame' = <<>>
    /\ event' = [kind |-> "timer_clear", message |-> timer_frame[1].message,
                 freed |-> qotd_message]
    /\ replies' = <<>>
    /\ twin_sent' = <<>>
    /\ UNCHANGED <<pc, exit_code, callbacks, is_initialized, commands,
                   timers, clock, time_now, sent, fires, accepted, attempts>>

\* The command list bot_main registers: one chat-input command, setqotd, with
\* one required string option, message.
SetqotdCommands ==
    <<[type |-> "DISCORD_APPLICATION_CHAT_INPUT", name |-> "setqotd",
       description |-> "Set the next question of the day",
       default_permission |-> FALSE,
       options |-> <<[type |-> DISCORD_APPLICATION_OPTION_STRING,
                      name |-> "message", required |-> TRUE]>>]>>

\* AlreadyInitialized with the guard lost.
AlreadyInitialized_Never == FALSE

\* if (is_initialized) return;
AlreadyInitialized == is_initialized

\* The timer discord_timer_interval creates at time_now: first due after the
\* delay, then every interval milliseconds, repeat times (-1: without end).
NewTimer(now) ==
    [cb |-> "on_qotd_timer", delay |-> TimerDelay(now),
     interval |-> TimerInterval, repeat |-> TimerRepeat,
     due |-> now * 1000 + TimerDelay(now)]

\* bot_main, the ready callback, run to its end; now is what time(NULL)
\* returns when it is called (the clock does not run backwards).
bot_main(now) ==
    /\ pc = "running"
    /\ "bot_main" \in callbacks
    /\ event' = [kind |-> "ready"]
    /\ replies' = <<>>
    /\ sent' = <<>>
    /\ UNCHANGED <<pc, exit_code, callbacks, qotd_message, heap,
                   fires, accepted, attempts, timer_frame, twin_message>>
    /\ twin_sent' = <<>>
    /\ IF AlreadyInitialized
       THEN UNCHANGED <<is_initialized, commands, timers, clock, time_now>>
       ELSE /\ now >= clock
            /\ is_initialized' = TRUE
            /\ commands' = Append(commands, SetqotdCommands)
            /\ time_now' = now
            /\ clock' = now
            /\ timers' = Append(timers, NewTimer(now))

\* --------------------------------------------------------------- specifications

\* The main specification: every event, with the short message texts.
Next ==
    \/ \E code \in CCORDcodes, client \in {NULL, <<"c">>} : main_start(code, client)
    \/ handle_sigint
    \/ \E code \in CCORDcodes : main_exit(code)
    \/ \E now \in ReadyTimes : bot_main(now)
    \/ \E ev \in Events : on_setqotd(ev)
    \/ \E i \in DOMAIN timers, delivered \in BOOLEAN : on_qotd_timer(i, delivered)

Spec == Init /\ [][Next]_vars

\* The text specification: the same program with every message text, the
\* long ones included, submitted in one interaction.
NextText ==
    \/ \E code \in CCORDcodes, client \in {NULL, <<"c">>} : main_start(code, client)
    \/ handle_sigint
    \/ \E code \in CCORDcodes : main_exit(code)
    \/ \E now \in {19 * 3600} : bot_main(now)
    \/ \E ev \in TextEvents : on_setqotd(ev)
    \/ \E i \in DOMAIN timers, delivered \in BOOLEAN : on_qotd_timer(i, delivered)

SpecText == Init /\ [][NextText]_vars

\* The schedule specification: the same program, ready at any of the
\* schedule's ready times, with one message text.
NextSchedule ==
    \/ \E code \in CCORDcodes, client \in {NULL, <<"c">>} : main_start(code, client)
    \/ handle_sigint
    \/ \E code \in CCORDcodes : main_exit(code)
    \/ \E now \in ScheduleReadyTimes : bot_main(now)
    \/ \E ev \in ScheduleEvents : on_setqotd(ev)
    \/ \E i \in DOMAIN timers, delivered \in BOOLEAN : on_qotd_timer(i, delivered)

SpecSchedule == Init /\ [][NextSchedule]_vars

\* The interleaved specification: the same program when the statements of
\* on_qotd_timer are not run as one step, so that on_setqotd may run between
\* the sending of the message and the clearing of qotd_message.
NextRace ==
    \/ \E code \in CCORDcodes, client \in {NULL, <<"c">>} : main_start(code, client)
    \/ handle_sigint
    \/ \E code \in CCORDcodes : main_exit(code)
    \/ \E now \in ReadyTimes : bot_main(now)
    \/ \E ev \in Events : on_setqotd(ev)
    \/ \E i \in DOMAIN timers, delivered \in BOOLEAN : on_qotd_timer_send(i, delivered)
    \/ on_qotd_timer_clear

SpecRace == Init /\ [][NextRace]_vars

\* --------------------------------------------------------------------- claims

\* The step just taken ran on_setqotd (event' is the event it handled).
IsInteraction(e) == e.kind = "interaction"
\* The step just taken ran on_qotd_timer.
IsTimer(e) == e.kind = "timer"
\* The step just taken ran bot_main.
IsReady(e) == e.kind = "ready"

\* The option list o consists of exactly one option of type string.
ExactlyOneString(o) ==
    /\ o # NULL_OPTIONS
    /\ Len(o.array) = 1
    /\ o.array[1].type = DISCORD_APPLICATION_OPTION_STRING

\* An ephemeral reply to interaction ev with the given text.
EphemeralReply(ev, text) ==
    [id |-> ev.id, token |-> ev.token, type |-> 4, flags |-> 64,
     content |-> text]

\* text is the first n characters of full (all of it when it is shorter).
IsPrefixOfLength(text, full, n) ==
    text = SubSeq(full, 1, IF Len(full) < n THEN Len(full) ELSE n)

\* `Question of the day has been updated to:\n> "X"`
ConfirmationOf(x) ==
    <<"Q", "u", "e", "s", "t", "i", "o", "n", " ", "o", "f", " ", "t", "h",
      "e", " ", "d", "a", "y", " ", "h", "a", "s", " ", "b", "e", "e", "n",
      " ", "u", "p", "d", "a", "t", "e", "d", " ", "t", "o", ":", "\n", ">",
      " ", "\"">> \o x \o <<"\"">>

\* `<@&ROLE_ID> X`: the role mention, one space, X.
PublishOf(x) ==
    <<"<", "@", "&", "1", "2", "1", "5", "1", "0", "5", "9", "5", "9", "8",
      "1", "5", "5", "5", "3", "0", "9", "6", ">", " ">> \o x

\* C1: an invocation by a caller other than the AuthorizedSubmitter, whatever
\* its option list, leaves PendingMessage as it was, and its only reply is
\* the ephemeral rejection notice; the handler does not fault.
C1_OtherCallerRejected ==
    [][(IsInteraction(event') /\ event'.ev.user_id # LUMI_USER_ID)
        => /\ qotd_message' = qotd_message
           /\ replies' = <<EphemeralReply(event'.ev, RejectionText)>>
           /\ pc' = pc]_vars

\* C1 witness: another caller's invocation with a valid option list was
\* rejected while PendingMessage holds an unsent value.
C1_Witness ==
    /\ IsInteraction(event)
    /\ event.ev.user_id = OTHER_USER_ID
    /\ event.ev.options = OneString(<<"q">>)
    /\ qotd_message = <<"q", "q">>
    /\ replies = <<EphemeralReply(event.ev, RejectionText)>>

C3_BadOptionsGetUsageError ==
    [][(/\ IsInteraction(event')
        /\ event'.ev.user_id = LUMI_USER_ID
        /\ ~ExactlyOneString(event'.ev.options))
        => /\ qotd_message' = qotd_message
           /\ replies' = <<EphemeralReply(event'.ev, UsageText)>>
           /\ pc' = pc]_vars

\* The channel message created for a pending message: one message, to the
\* fixed channel, whose content is the first n characters of `<@&ROLE_ID> X`.
PublishedAs(out, x, n) ==
    /\ Len(out) = 1
    /\ out[1].channel_id =
        <<1, 1, 9, 8, 5, 0, 7, 2, 9, 5, 5, 3, 8, 1, 5, 1, 4, 3, 4>>
    /\ IsPrefixOfLength(out[1].content, PublishOf(x), n)

\* The callback before this step accepted a submission: its text.
AcceptedText(e) == e.ev.options.array[1].value
JustAccepted(e) ==
    /\ IsInteraction(e)
    /\ e.ev.user_id = LUMI_USER_ID
    /\ ExactlyOneString(e.ev.options)

\* C4 as stated: a timer fire right after an accepted submission of X sends
\* exactly one message, `<@&ROLE_ID> X` with X unaltered, to the fixed
\* channel and leaves PendingMessage absent; a fire that finds nothing
\* pending sends nothing.
C4_RoundTripInFull ==
    [][IsTimer(event')
        => /\ JustAccepted(event)
                => /\ qotd_message = AcceptedText(event)
                   /\ PublishedAs(sent', AcceptedText(event),
                                  Len(PublishOf(AcceptedText(event))))
           /\ qotd_message' = NULL
           /\ qotd_message = NULL => sent' = <<>>]_vars

\* C4 amended: a timer fire right after an accepted submission of X sends
\* exactly one message to the fixed channel, whose content is the first 4000
\* characters of `<@&ROLE_ID> X`, and leaves PendingMessage absent; a fire
\* that finds nothing pending sends nothing.
C4_RoundTripTruncated ==
    [][IsTimer(event')
        => /\ JustAccepted(event)
                => /\ qotd_message = AcceptedText(event)
                   /\ PublishedAs(sent', AcceptedText(event), 4000)
           /\ qotd_message # NULL => PublishedAs(sent', qotd_message, 4000)
           /\ qotd_message' = NULL
           /\ qotd_message = NULL => sent' = <<>>]_vars

\* C4 witness: a fire published a text too long for the buffer: the message
\* has 4000 characters and lacks the marked last character of the text.
C4_Witness ==
    /\ IsTimer(event)
    /\ Len(sent) = 1
    /\ Len(sent[1].content) = 4000
    /\ sent[1].content[4000] = "x"
    /\ qotd_message = NULL

\* The registration of a timer: what discord_timer_interval was handed.
Registration(t) == [cb |-> t.cb, delay |-> t.delay, interval |-> t.interval,
                    repeat |-> t.repeat]

\* C5: a timer fire that finds PendingMessage absent sends no message and no
\* reply and changes nothing: PendingMessage stays absent, the initialization
\* flag, the registered commands and the timer registrations are untouched.
C5_IdleFireChangesNothing ==
    [][(IsTimer(event') /\ qotd_message = NULL)
        => /\ sent' = <<>>
           /\ replies' = <<>>
           /\ qotd_message' = NULL
           /\ is_initialized' = is_initialized
           /\ commands' = commands
           /\ heap' = heap
           /\ attempts' = attempts
           /\ pc' = pc
           /\ Len(timers') = Len(timers)
           /\ \A i \in DOMAIN timers :
                Registration(timers'[i]) = Registration(timers[i])]_vars

\* C5 witness: two consecutive fires found nothing pending.
C5_Witness ==
    /\ IsTimer(event)
    /\ Len(fires) >= 2
    /\ accepted = 0
    /\ qotd_message = NULL
    /\ sent = <<>>

\* Today's 20:00:10 UTC slot, for a time t in seconds since the epoch.
SlotToday(t) == (t \div 86400) * 86400 + 72010

\* t is less than 15 seconds before today's slot.
InMargin(t) == t < SlotToday(t) /\ SlotToday(t) - t < 15

\* C6 as stated: when the bot becomes ready less than 15 seconds before
\* today's slot, the initial delay is T - now: the first fire is today's.
C6_MarginKeepsToday ==
    (is_initialized /\ timers # <<>> /\ InMargin(time_now))
        => timers[1].delay = (SlotToday(time_now) - time_now) * 1000

\* C6 amended: when the bot becomes ready less than 15 seconds before today's
\* slot, the initial delay is T + 24 h - now: the first fire is the next
\* day's slot (86410 seconds away when now is 20:00:00 UTC).
C6_MarginSkipsToday ==
    (is_initialized /\ timers # <<>> /\ InMargin(time_now))
        => /\ timers[1].delay = (SlotToday(time_now) + 86400 - time_now) * 1000
           /\ time_now % 86400 = 72000 => timers[1].delay = 86410000

\* C6 witness: the bot became ready at 20:00:00 UTC and its timer has fired.
C6_Witness ==
    /\ is_initialized
    /\ time_now % 86400 = 72000
    /\ InMargin(time_now)
    /\ Len(fires) >= 1

\* The first 20:00:10 UTC slot strictly after time t.
FirstSlotAfter(t) ==
    IF SlotToday(t) > t THEN SlotToday(t) ELSE SlotToday(t) + 86400

\* The first 20:00:10 UTC slot that is at least 15 seconds after time t.
FirstSlotFrom(t) ==
    IF SlotToday(t) >= t + 15 THEN SlotToday(t) ELSE SlotToday(t) + 86400

\* The fires so far are at the consecutive daily slots starting at first.
FiresDailyFrom(first) ==
    \A k \in 1..Len(fires) : fires[k] = first + (k - 1) * 86400

\* C7 as stated: whatever the ready time, the timer fires only at 20:00:10
\* UTC instants, once per slot, and at every slot after the ready time.
C7_EverySlotAfterReady ==
    is_initialized => FiresDailyFrom(FirstSlotAfter(time_now))

\* C7 amended: whatever the ready time, the timer fires only at 20:00:10 UTC
\* instants, once per slot, and at every slot that is at least 15 seconds
\* after the ready time (a slot less than 15 seconds after it is skipped).
C7_EverySlotFromMargin ==
    is_initialized
        => /\ FiresDailyFrom(FirstSlotFrom(time_now))
           /\ Len(timers) = 1
           /\ timers[1].due = (FirstSlotFrom(time_now) + Len(fires) * 86400) * 1000
           /\ \A k \in 1..Len(fires) :
                /\ fires[k] % 86400 = 72010
                /\ fires[k] >= time_now + 15
                /\ \A j \in 1..Len(fires) : j # k => fires[j] # fires[k]

\* C7 witness: ready 10 seconds before a slot, the timer skipped that slot and
\* fired at the two slots after it.
C7_Witness ==
    /\ is_initialized
    /\ time_now % 86400 = 72000
    /\ Len(fires) = 2
    /\ fires[1] = SlotToday(time_now) + 86400
    /\ fires[2] = SlotToday(time_now) + 2 * 86400

\* C8: with T today's 20:00:10 UTC, the initial delay is T - now unless
\* T - 15 s < now, and T + 24 h - now then; the timer is registered once with
\* that delay in milliseconds, a period of 24 hours and an unlimited repeat
\* count. Ready at 19:00:00 UTC gives 3610 s, at 20:00:06 UTC 86404 s.
C8_FirstFireDelay ==
    is_initialized
        => LET t == SlotToday(time_now)
               seconds == IF t - 15 < time_now THEN t + 86400 - time_now
                          ELSE t - time_now
           IN  /\ Len(timers) = 1
               /\ timers[1].delay = seconds * 1000
               /\ timers[1].interval = 86400000
               /\ timers[1].repeat = -1
               /\ timers[1].cb = "on_qotd_timer"
               /\ time_now % 86400 = 68400 => timers[1].delay = 3610000
               /\ time_now % 86400 = 72006 => timers[1].delay = 86404000

\* C8 witness: the bot became ready at 20:00:06 UTC of the second day and
\* registered its timer 86404 seconds ahead.
C8_Witness ==
    /\ is_initialized
    /\ time_now = 86400 + 72006
    /\ timers[1].delay = 86404000

\* C9: over any sequence of ready signals the command list and the timer are
\* registered exactly once, by the first one; a later ready signal changes
\* nothing and registers nothing, so at most one timer ever exists.
C9_BootstrapOnce ==
    [][/\ Len(timers') <= 1
       /\ Len(commands') <= 1
       /\ is_initialized' <=> (Len(timers') = 1 /\ Len(commands') = 1)
       /\ (IsReady(event') /\ ~is_initialized)
            => /\ is_initialized'
               /\ commands' = <<SetqotdCommands>>
               /\ Len(timers') = 1
       /\ (IsReady(event') /\ is_initialized)
            => /\ UNCHANGED <<is_initialized, commands, timers, time_now,
                              clock, qotd_message, heap, fires, accepted,
                              attempts, pc, callbacks>>
               /\ replies' = <<>>
               /\ sent' = <<>>]_vars

\* C9 witness: a ready signal arrived after the timer had fired, with a
\* message pending, and one timer is registered.
C9_Witness ==
    /\ IsReady(event)
    /\ Len(fires) >= 1
    /\ qotd_message # NULL
    /\ Len(timers) = 1
    /\ Len(commands) = 1

\* C10: a timer fire that finds PendingMessage present leaves it absent
\* whether or not the message it sent was delivered; the fire after an
\* undelivered message sends nothing unless a submission was accepted in
\* between, and no more publishes are attempted than submissions accepted.
C10_NoRetry ==
    [][/\ (IsTimer(event') /\ qotd_message # NULL)
            => /\ qotd_message' = NULL
               /\ Len(sent') = 1
               /\ attempts' = attempts + 1
       /\ (IsTimer(event') /\ IsTimer(event) /\ sent # <<>>)
            => sent' = <<>>
       /\ attempts' <= accepted']_vars

\* C10 witness: the message a fire sent was not delivered and PendingMessage
\* is absent.
C10_Witness ==
    /\ IsTimer(event)
    /\ Len(sent) = 1
    /\ ~sent[1].delivered
    /\ qotd_message = NULL

\* C11 as stated: every invocation of the command yields exactly one reply,
\* addressed to the id and token of that invocation; a timer fire and a ready
\* signal yield no reply.
C11_OneReplyPerInvocation ==
    [][/\ IsInteraction(event')
            => /\ Len(replies') = 1
               /\ replies'[1].id = event'.ev.id
               /\ replies'[1].token = event'.ev.token
       /\ (IsTimer(event') \/ IsReady(event')) => replies' = <<>>]_vars

\* C12: the run and its twin, which is handed none of the invocations by
\* other callers, hold the same PendingMessage after every step and send the
\* same channel messages at every fire; PendingMessage only ever becomes a
\* text that Lumi submitted at that step, and a channel message is only ever
\* sent by a fire and carries the PendingMessage of that moment.
C12_OtherCallersDoNotInterfere ==
    [][/\ qotd_message' = twin_message'
       /\ IsTimer(event') => sent' = twin_sent'
       /\ (qotd_message' # qotd_message /\ qotd_message' # NULL)
            => /\ JustAccepted(event')
               /\ qotd_message' = AcceptedText(event')
       /\ (IsInteraction(event') \/ IsReady(event')) => sent' = <<>>
       /\ (IsTimer(event') /\ sent' # <<>>)
            => /\ qotd_message # NULL
               /\ PublishedAs(sent', qotd_message, 4000)]_vars

\* C12 witness: another caller invoked the command with one string option
\* while a different text of Lumi's was pending, and the run still agrees with
\* its twin.
C12_Witness ==
    /\ IsInteraction(event)
    /\ event.ev.user_id # LUMI_USER_ID
    /\ ExactlyOneString(event.ev.options)
    /\ qotd_message # NULL
    /\ qotd_message # AcceptedText(event)
    /\ twin_message = qotd_message

C14_OneInstanceHeld ==
    heap = IF qotd_message = NULL THEN 0 ELSE 1

\* C15: with the callbacks run one at a time, PendingMessage becomes X when a
\* submission of X is accepted, nothing but a later accepted submission or a
\* fire changes it, and a fire that finds it present sends exactly one
\* message, made from it, and leaves it absent; so a fire publishes the last
\* submission accepted since the fire before and no text twice.
C15_NoLostUpdate ==
    [][/\ JustAccepted(event') => qotd_message' = AcceptedText(event')
       /\ (~JustAccepted(event') /\ ~IsTimer(event'))
            => qotd_message' = qotd_message
       /\ (IsTimer(event') /\ qotd_message # NULL)
            => /\ PublishedAs(sent', qotd_message, 4000)
               /\ qotd_message' = NULL
               /\ attempts' = attempts + 1
       /\ (IsTimer(event') /\ qotd_message = NULL)
            => /\ sent' = <<>>
               /\ attempts' = attempts
       /\ attempts' <= accepted']_vars

\* C15 witness: two submissions were accepted before the first publish, which
\* a fire has just made.
C15_Witness ==
    /\ IsTimer(event)
    /\ accepted = 2
    /\ attempts = 1
    /\ Len(sent) = 1
    /\ qotd_message = NULL

\* C16: when on_setqotd runs between the two parts of on_qotd_timer, the
\* submission it accepted and confirmed is the string the callback frees: PendingMessage is
\* absent afterwards, the only message the callback sent was made before the
\* submission was stored, and no publish is made of the submission.
C16_LostUpdate ==
    [][(event'.kind = "timer_clear" /\ JustAccepted(event))
            => /\ Len(replies) = 1
               /\ IsPrefixOfLength(replies[1].content,
                                   ConfirmationOf(AcceptedText(event)), 4000)
               /\ event'.freed = AcceptedText(event)
               /\ event'.message = timer_frame[1].message
               /\ qotd_message' = NULL
               /\ attempts' = attempts
               /\ sent' = sent]_vars

\* C16 witness: on_qotd_timer has sent one text and then freed and cleared
\* another, which is published by no one.
C16_Witness ==
    /\ event.kind = "timer_clear"
    /\ event.freed # NULL
    /\ event.message # MessageText(event.freed)
    /\ qotd_message = NULL
    /\ accepted = 2
    /\ attempts = 1

\* C17: no reply and no channel message has more than 4000 characters, one
\* byte of the 4001 being the terminator. An accepted submission of X leaves
\* all of X in PendingMessage, however long, and is answered with the first
\* 4000 characters of the confirmation text; the fire that finds X sends the
\* first 4000 characters of `<@&ROLE_ID> X`, whose mention and space take 24:
\* all of it when X has at most 3976 characters, cut to 4000 otherwise; and
\* PendingMessage is absent after the fire.
C17_BoundedBuffers ==
    [][/\ \A k \in DOMAIN replies' : Len(replies'[k].content) + 1 <= 4001
       /\ \A k \in DOMAIN sent' : Len(sent'[k].content) + 1 <= 4001
       /\ JustAccepted(event')
            => LET x == AcceptedText(event')
               IN  /\ qotd_message' = x
                   /\ Len(qotd_message') = Len(x)
                   /\ Len(replies'[1].content) = Min(4000, 45 + Len(x))
       /\ (IsTimer(event') /\ qotd_message # NULL)
            => LET x == qotd_message
                   content == sent'[1].content
               IN  /\ Len(sent') = 1
                   /\ IsPrefixOfLength(content, PublishOf(x), 4000)
                   /\ Len(x) <= 3976 => Len(content) = 24 + Len(x)
                   /\ Len(x) > 3976 => Len(content) = 4000
                   /\ qotd_message' = NULL]_vars

\* C17 witness: a text of 3977 characters was pending in full, marked last
\* character included, and the fire has sent 4000 characters of it behind the
\* role mention and left nothing pending.
C17_Witness ==
    /\ IsTimer(event)
    /\ Len(sent) = 1
    /\ Len(sent[1].content) = 4000
    /\ SubSeq(sent[1].content, 1, 24) = PublishOf(<<>>)
    /\ sent[1].content[4000] # "z"
    /\ twin_sent = sent
    /\ qotd_message = NULL
    /\ heap = 0

\* C18: whatever the second of the UTC day at which the bot becomes ready, the
\* difference handed to the conversion is positive, the initial delay is
\* between 15 and 86414 seconds, in milliseconds, and the first fire is due at
\* the first 20:00:10 UTC that is at least 15 seconds after the ready time.
C18_DelayInRange ==
    [][(IsReady(event') /\ ~is_initialized)
        => LET now == time_now'
               delay == timers'[1].delay
               first == timers'[1].due
           IN  /\ SecondsUntilQotd(now) > 0
               /\ delay = SecondsUntilQotd(now) * 1000
               /\ 15 * 1000 <= delay
               /\ delay <= 86414 * 1000
               /\ first = now * 1000 + delay
               /\ (first \div 1000) % 86400 = 72010
               /\ first \div 1000 >= now + 15
               /\ first \div 1000 - 86400 < now + 15]_vars

\* C18 witness: ready at 20:00:10 minus 14 seconds, the bot registered the
\* longest delay, 86414 seconds.
C18_Witness ==
    /\ IsReady(event)
    /\ is_initialized
    /\ time_now % 86400 = 72010 - 14
    /\ timers[1].delay = 86414 * 1000
    /\ fires = <<>>

====
